---- MODULE Spec2Model ----
(***************************************************************************)
(* Rule engine with AST: tokenizer, shunting-yard parser, tree evaluator,  *)
(* condition evaluator, rule combinator and the (de)serialisation of the   *)
(* tree (src/rule_engine/rule_engine.py, src/app.py).                      *)
(*                                                                         *)
(* A Python str is a sequence of one-character strings, so that the        *)
(* regular expressions of the code are modelled character by character.    *)
(* A call's outcome is [kind |-> "return", value |-> v] or                 *)
(* [kind |-> "raise", exc |-> <exception class>, msg |-> <message>].       *)
(***************************************************************************)
EXTENDS Integers, Sequences, FiniteSets, TLC

VARIABLES
    rules,      \* input: the list of rule strings
    data,       \* input: the record, a dict from field name to value
    payload,    \* input: the attribute map handed to json_to_node
    tokens,     \* outcome of tokenize(rules[last.k])
    ast,        \* outcome of the call last.op that produced the tree held
    node_dict,  \* outcome of ast.to_dict()
    rebuilt,    \* outcome of json_to_node(node_dict)
    result,     \* outcome of evaluate_rule(ast, data)
    last        \* [op, k]: the call that produced tokens or ast, on rules[k]

vars == <<rules, data, payload, tokens, ast, node_dict, rebuilt, result, last>>

inputs == <<rules, data, payload>>

----------------------------------------------------------------------------
(* Python values *)

None == [py |-> "None"]

Return(v) == [kind |-> "return", value |-> v]

Raise(e, m) == [kind |-> "raise", exc |-> e, msg |-> m]

Returned(o) == o.kind = "return"

Raised(o) == o.kind = "raise"

Node(t, v, l, r) == [node_type |-> t, value |-> v, left |-> l, right |-> r]

IsNode(x) == "node_type" \in DOMAIN x /\ "right" \in DOMAIN x

----------------------------------------------------------------------------
(* Character classes of the regular expressions *)

Lower == {"a", "b", "c", "d", "e", "f", "g", "h", "i", "j", "k", "l", "m",
          "n", "o", "p", "q", "r", "s", "t", "u", "v", "w", "x", "y", "z"}

Upper == {"A", "B", "C", "D", "E", "F", "G", "H", "I", "J", "K", "L", "M",
          "N", "O", "P", "Q", "R", "S", "T", "U", "V", "W", "X", "Y", "Z"}

Digit == {"0", "1", "2", "3", "4", "5", "6", "7", "8", "9"}

Whitespace == {" ", "\t", "\n"}

IdentStart == Lower \cup Upper \cup {"_"}

IdentChar == IdentStart \cup Digit \cup {"."}

PunctChar == {"(", ")", "<", ">", "!", "="}

CmpChar == {"<", ">", "!", "="}

SubStr(s, a, b) == IF b < a THEN <<>> ELSE SubSeq(s, a, b)

\* Length of the longest run of characters of class cls starting at s[p].
RECURSIVE RunLen(_, _, _)
RunLen(s, p, cls) ==
    IF p <= Len(s) /\ s[p] \in cls THEN 1 + RunLen(s, p + 1, cls) ELSE 0

StartsWithAt(s, p, w) ==
    /\ p + Len(w) - 1 <= Len(s)
    /\ SubStr(s, p, p + Len(w) - 1) = w

\* Index of the first occurrence of character c in s at or after p, 0 if none.
RECURSIVE FindChar(_, _, _)
FindChar(s, p, c) ==
    IF p > Len(s) THEN 0
    ELSE IF s[p] = c THEN p
    ELSE FindChar(s, p + 1, c)

\* str.strip()
RECURSIVE LStrip(_)
LStrip(s) == IF s # <<>> /\ Head(s) \in Whitespace THEN LStrip(Tail(s)) ELSE s

RECURSIVE RStrip(_)
RStrip(s) ==
    IF s # <<>> /\ s[Len(s)] \in Whitespace
    THEN RStrip(SubStr(s, 1, Len(s) - 1))
    ELSE s

Strip(s) == RStrip(LStrip(s))

AND == <<"A", "N", "D">>

OR == <<"O", "R">>

LPAREN == <<"(">>

RPAREN == <<")">>

----------------------------------------------------------------------------
(* tokenize *)

\* Length of the match of the tokenizer's pattern anchored at s[p], 0 when no
\* alternative matches there.  The alternatives are tried in the order they
\* are written in the pattern; the first that matches wins.
QuotedLen(s, p, q) ==
    IF s[p] = q /\ FindChar(s, p + 1, q) # 0
    THEN FindChar(s, p + 1, q) - p + 1
    ELSE 0

PatternMatchLen(s, p) ==
    IF s[p] \in Whitespace THEN RunLen(s, p, Whitespace)
    ELSE IF StartsWithAt(s, p, AND) THEN 3
    ELSE IF StartsWithAt(s, p, OR) THEN 2
    ELSE IF s[p] \in PunctChar
         THEN (IF p < Len(s) /\ s[p + 1] = "=" THEN 2 ELSE 1)
    ELSE IF s[p] \in IdentStart THEN 1 + RunLen(s, p + 1, IdentChar)
    ELSE IF QuotedLen(s, p, "'") # 0 THEN QuotedLen(s, p, "'")
    ELSE QuotedLen(s, p, "\"")

\* The pieces re.split returns (the text between matches and, the pattern
\* being one capturing group, the matches themselves), kept when
\* token.strip() is non-empty.
KeepToken(acc, piece) == IF Strip(piece) # <<>> THEN Append(acc, piece) ELSE acc

RECURSIVE SplitFrom(_, _, _, _)
SplitFrom(s, p, from, acc) ==
    IF p > Len(s) THEN KeepToken(acc, SubStr(s, from, Len(s)))
    ELSE LET m == PatternMatchLen(s, p) IN
         IF m = 0 THEN SplitFrom(s, p + 1, from, acc)
         ELSE SplitFrom(s, p + m, p + m,
                        KeepToken(KeepToken(acc, SubStr(s, from, p - 1)),
                                  SubStr(s, p, p + m - 1)))

tokenize(rule_string) == SplitFrom(rule_string, 1, 1, <<>>)

----------------------------------------------------------------------------
(* parse *)

\* Mutant of precedence: the two ranks exchanged.
precedence_Exchanged(op) == IF op = AND THEN 0 ELSE 1

precedence(op) == IF op = AND THEN 1 ELSE 0

InPrecedence(tok) == tok = AND \/ tok = OR

Pop(stack) == SubStr(stack, 1, Len(stack) - 1)

Top(stack) == stack[Len(stack)]

\* Mutant of Reduce: the first operand popped becomes the left child.
Reduce_Swapped(output, operators) ==
    [output |-> Append(Pop(Pop(output)),
                       Node("operator", Top(operators),
                            Top(output), output[Len(output) - 1])),
     operators |-> Pop(operators)]

\* One reduction: right = output.pop(); left = output.pop(); op = operators.pop();
\* output.append(Node("operator", value=op, left=left, right=right)).
Reduce(output, operators) ==
    [output |-> Append(Pop(Pop(output)),
                       Node("operator", Top(operators),
                            output[Len(output) - 1], Top(output))),
     operators |-> Pop(operators)]

\* The reduction loops of parse: each reduces while its condition holds of the operator
\* stack; the outcome is the pair of stacks, or the ValueError raised.
\* Mutant of CollapseParen: an if for the while, one reduction at most.
CollapseParen_ReducesOnce(output, operators) ==
    IF operators # <<>> /\ Top(operators) # LPAREN
    THEN IF Len(output) < 2
         THEN Raise("ValueError", "Incomplete expression before closing parenthesis")
         ELSE Return(Reduce(output, operators))
    ELSE Return([output |-> output, operators |-> operators])

RECURSIVE CollapseParen(_, _)
CollapseParen(output, operators) ==
    IF operators # <<>> /\ Top(operators) # LPAREN
    THEN IF Len(output) < 2
         THEN Raise("ValueError", "Incomplete expression before closing parenthesis")
         ELSE LET st == Reduce(output, operators)
              IN CollapseParen(st.output, st.operators)
    ELSE Return([output |-> output, operators |-> operators])

RECURSIVE CollapsePrecedence(_, _, _)
CollapsePrecedence(output, operators, token) ==
    IF /\ operators # <<>>
       /\ InPrecedence(Top(operators))
       /\ precedence(Top(operators)) >= precedence(token)
    THEN IF Len(output) < 2
         THEN Raise("ValueError", "Incomplete expression during operator processing")
         ELSE LET st == Reduce(output, operators)
              IN CollapsePrecedence(st.output, st.operators, token)
    ELSE Return([output |-> output, operators |-> operators])

RECURSIVE CollapseRemaining(_, _)
CollapseRemaining(output, operators) ==
    IF operators # <<>>
    THEN IF Len(output) < 2
         THEN Raise("ValueError", "Incomplete expression at end of parsing")
         ELSE LET st == Reduce(output, operators)
              IN CollapseRemaining(st.output, st.operators)
    ELSE Return([output |-> output, operators |-> operators])

\* re.match(r"[a-zA-Z_][a-zA-Z0-9_.]*", token): a match of a prefix.
MatchesIdentifier(token) == token # <<>> /\ token[1] \in IdentStart

\* re.match(r"[<>!=]+", token): a match of a prefix.
MatchesComparator(token) == token # <<>> /\ token[1] \in CmpChar

\* f"{token} {tokens[i + 1]} {tokens[i + 2]}"
Condition(t1, t2, t3) == t1 \o <<" ">> \o t2 \o <<" ">> \o t3

\* The while loop of parse; i is the 0-based cursor of the code.
RECURSIVE ParseLoop(_, _, _, _)
ParseLoop(toks, i, output, operators) ==
    IF i >= Len(toks)
    THEN LET c == CollapseRemaining(output, operators) IN
         IF Raised(c) THEN c
         ELSE IF Len(c.value.output) # 1
              THEN Raise("ValueError", "Invalid expression: check operator and operand count.")
              ELSE Return(c.value.output[1])
    ELSE LET token == toks[i + 1] IN
         IF token = LPAREN
         THEN ParseLoop(toks, i + 1, output, Append(operators, token))
         ELSE IF token = RPAREN
         THEN LET c == CollapseParen(output, operators) IN
              IF Raised(c) THEN c
              ELSE IF c.value.operators = <<>>
                   THEN Raise("IndexError", "pop from empty list")
                   ELSE ParseLoop(toks, i + 1, c.value.output, Pop(c.value.operators))
         ELSE IF InPrecedence(token)
         THEN LET c == CollapsePrecedence(output, operators, token) IN
              IF Raised(c) THEN c
              ELSE ParseLoop(toks, i + 1, c.value.output,
                             Append(c.value.operators, token))
         ELSE IF /\ MatchesIdentifier(token)
                 /\ i + 2 < Len(toks)
                 /\ MatchesComparator(toks[i + 2])
         THEN ParseLoop(toks, i + 3,
                        Append(output,
                               Node("operand",
                                    Condition(token, toks[i + 2], toks[i + 3]),
                                    None, None)),
                        operators)
         ELSE Raise("ValueError", "Invalid token or incomplete expression")

parse(toks) == ParseLoop(toks, 0, <<>>, <<>>)

----------------------------------------------------------------------------
(* create_rule, combine_rules *)

create_rule(rule_string) ==
    IF rule_string = <<>>
    THEN Raise("ValueError", "rule_string must not be null or empty")
    ELSE LET toks == tokenize(rule_string) IN
         IF toks = <<>>
         THEN Raise("ValueError", "rule_string did not produce any tokens")
         ELSE LET p == parse(toks) IN
              IF Raised(p)
              THEN (IF p.exc = "ValueError"
                    THEN Raise("ValueError", "Error parsing rule: " \o p.msg)
                    ELSE p)
              ELSE p

\* The for loop of combine_rules from rule k on, combined_ast being the
\* accumulator: a ValueError of create_rule is printed and the rule skipped,
\* any other exception leaves the loop and combine_rules.
RECURSIVE CombineLoop(_, _, _)
CombineLoop(rs, k, combined_ast) ==
    IF k > Len(rs) THEN Return(combined_ast)
    ELSE LET r == create_rule(rs[k]) IN
         IF Raised(r)
         THEN (IF r.exc = "ValueError"
               THEN CombineLoop(rs, k + 1, combined_ast)
               ELSE r)
         ELSE IF combined_ast = None
              THEN CombineLoop(rs, k + 1, r.value)
              ELSE CombineLoop(rs, k + 1,
                               Node("operator", OR, combined_ast, r.value))

combine_rules(rs) == IF rs = <<>> THEN Return(None) ELSE CombineLoop(rs, 1, None)

----------------------------------------------------------------------------
(* evaluate_condition *)

\* The characters in code-point order, for Python's ordering of str.
CodePoints ==
    <<"\t", "\n", " ", "!", "\"", "#", "$", "%", "&", "'", "(", ")", "*", "+",
      ",", "-", ".", "/", "0", "1", "2", "3", "4", "5", "6", "7", "8", "9",
      ":", ";", "<", "=", ">", "?", "@",
      "A", "B", "C", "D", "E", "F", "G", "H", "I", "J", "K", "L", "M",
      "N", "O", "P", "Q", "R", "S", "T", "U", "V", "W", "X", "Y", "Z",
      "[", "\\", "]", "^", "_",
      "a", "b", "c", "d", "e", "f", "g", "h", "i", "j", "k", "l", "m",
      "n", "o", "p", "q", "r", "s", "t", "u", "v", "w", "x", "y", "z",
      "{", "|", "}", "~">>

Ord(c) == CHOOSE k \in 1..Len(CodePoints) : CodePoints[k] = c

RECURSIVE StrLess(_, _)
StrLess(a, b) ==
    IF b = <<>> THEN FALSE
    ELSE IF a = <<>> THEN TRUE
    ELSE IF Head(a) = Head(b) THEN StrLess(Tail(a), Tail(b))
    ELSE Ord(Head(a)) < Ord(Head(b))

IntVal(n) == [t |-> "int", v |-> n]

FloatVal(n, k) == [t |-> "float", v |-> n, scale |-> k]

StrVal(s) == [t |-> "str", s |-> s]

DigitVal(c) == Ord(c) - Ord("0")

RECURSIVE Pow10(_)
Pow10(k) == IF k = 0 THEN 1 ELSE 10 * Pow10(k - 1)

\* The digits of s with the underscores dropped.
NoUnderscore(s) == SelectSeq(s, LAMBDA c : c # "_")

RECURSIVE DigitsToInt(_)
DigitsToInt(s) ==
    IF s = <<>> THEN 0
    ELSE 10 * DigitsToInt(SubStr(s, 1, Len(s) - 1)) + DigitVal(s[Len(s)])

\* Digits, with single underscores between digits allowed (PEP 515).
IsDigitGroup(s) ==
    /\ s # <<>>
    /\ \A k \in 1..Len(s) : s[k] \in Digit \cup {"_"}
    /\ s[1] \in Digit /\ s[Len(s)] \in Digit
    /\ \A k \in 1..(Len(s) - 1) : ~(s[k] = "_" /\ s[k + 1] = "_")

Signed(s) == s # <<>> /\ s[1] \in {"+", "-"}

Unsigned(s) == IF Signed(s) THEN Tail(s) ELSE s

Sign(s) == IF s # <<>> /\ s[1] = "-" THEN -1 ELSE 1

\* int(value): surrounding whitespace and a sign are accepted.
PyInt(value) ==
    LET body == Unsigned(Strip(value)) IN
    IF IsDigitGroup(body)
    THEN Return(IntVal(Sign(Strip(value)) * DigitsToInt(NoUnderscore(body))))
    ELSE Raise("ValueError", "invalid literal for int() with base 10")

\* float(value) for the decimal notation [sign] digits [. digits]; exactly,
\* as the scaled integer v / 10^scale.  (Exponents, inf and nan contain
\* letters; no literal of the input families below has that form.)
PyFloat(value) ==
    LET body == Unsigned(Strip(value))
        dot  == FindChar(body, 1, ".")
        ip   == IF dot = 0 THEN body ELSE SubStr(body, 1, dot - 1)
        fp   == IF dot = 0 THEN <<>> ELSE SubStr(body, dot + 1, Len(body))
        fd   == NoUnderscore(fp)
    IN IF /\ (ip = <<>> \/ IsDigitGroup(ip))
          /\ (fp = <<>> \/ IsDigitGroup(fp))
          /\ (ip # <<>> \/ fp # <<>>)
       THEN Return(FloatVal(Sign(Strip(value))
                              * (DigitsToInt(NoUnderscore(ip)) * Pow10(Len(fd))
                                 + DigitsToInt(fd)),
                            Len(fd)))
       ELSE Raise("ValueError", "could not convert string to float")

\* The match of the condition pattern anchored at the start of operand:
\* identifier, \s*, a comparator character and an optional =, \s*, and the
\* literal: digits with an optional .digits, or a quoted string.
\* NoMatch, or the three groups.
NoMatch == [matched |-> FALSE]

\* The lazy quoted literal from s[p]: up to the first closing quote, the
\* dot of the pattern matching no newline.
LazyQuotedLen(s, p, q) ==
    LET close == FindChar(s, p + 1, q) IN
    IF s[p] = q /\ close # 0 /\ \A k \in (p + 1)..(close - 1) : s[k] # "\n"
    THEN close - p + 1
    ELSE 0

NumberLen(s, p) ==
    LET d == RunLen(s, p, Digit) IN
    IF d = 0 THEN 0
    ELSE IF /\ p + d <= Len(s)
            /\ s[p + d] = "."
            /\ RunLen(s, p + d + 1, Digit) > 0
         THEN d + 1 + RunLen(s, p + d + 1, Digit)
         ELSE d

LiteralLen(s, p) ==
    IF p > Len(s) THEN 0
    ELSE IF NumberLen(s, p) # 0 THEN NumberLen(s, p)
    ELSE IF LazyQuotedLen(s, p, "'") # 0 THEN LazyQuotedLen(s, p, "'")
    ELSE LazyQuotedLen(s, p, "\"")

ConditionMatch(operand) ==
    IF operand = <<>> \/ operand[1] \notin IdentStart THEN NoMatch
    ELSE LET f == 1 + RunLen(operand, 2, IdentChar)
             q == f + 1 + RunLen(operand, f + 1, Whitespace)
         IN IF q > Len(operand) \/ operand[q] \notin CmpChar THEN NoMatch
            ELSE LET o == IF q < Len(operand) /\ operand[q + 1] = "=" THEN 2 ELSE 1
                     r == q + o + RunLen(operand, q + o, Whitespace)
                     n == LiteralLen(operand, r)
                 IN IF n = 0 THEN NoMatch
                    ELSE [matched  |-> TRUE,
                          field    |-> SubStr(operand, 1, f),
                          operator |-> SubStr(operand, q, q + o - 1),
                          value    |-> SubStr(operand, r, r + n - 1)]

Quotes == {"'", "\""}

\* value[1:-1] when value starts and ends with a quote character.
Unquote(value) ==
    IF value[1] \in Quotes /\ value[Len(value)] \in Quotes
    THEN SubStr(value, 2, Len(value) - 1)
    ELSE value

IsNumeric(field_value) == field_value.t \in {"int", "float"}

\* float(value) if '.' in value else int(value), or str(value).
Convert(field_value, value) ==
    IF IsNumeric(field_value)
    THEN (IF FindChar(value, 1, ".") # 0 THEN PyFloat(value) ELSE PyInt(value))
    ELSE Return(StrVal(value))

Scale(x) == IF x.t = "float" THEN x.scale ELSE 0

\* x < y and x == y of two numbers or of two strings.
PyLess(x, y) ==
    IF x.t = "str" THEN StrLess(x.s, y.s)
    ELSE x.v * Pow10(Scale(y)) < y.v * Pow10(Scale(x))

PyEqual(x, y) ==
    IF x.t = "str" THEN x.s = y.s
    ELSE x.v * Pow10(Scale(y)) = y.v * Pow10(Scale(x))

SupportedOperators == {<<">">>, <<"<">>, <<"=", "=">>, <<"!", "=">>,
                       <<">", "=">>, <<"<", "=">>}

Compare(operator, x, y) ==
    IF operator = <<">">> THEN PyLess(y, x)
    ELSE IF operator = <<"<">> THEN PyLess(x, y)
    ELSE IF operator = <<"=", "=">> THEN PyEqual(x, y)
    ELSE IF operator = <<"!", "=">> THEN ~PyEqual(x, y)
    ELSE IF operator = <<">", "=">> THEN ~PyLess(x, y)
    ELSE ~PyLess(y, x)

\* if operator == '=': operator = '=='
Normalize(operator) == IF operator = <<"=">> THEN <<"=", "=">> ELSE operator

HasField(d, field) == field \in DOMAIN d

evaluate_condition(operand, d) ==
    LET m == ConditionMatch(operand) IN
    IF ~m.matched THEN Raise("ValueError", "Invalid condition")
    ELSE IF ~HasField(d, m.field)
    THEN Raise("ValueError", "Field not found in data.")
    ELSE LET field_value == d[m.field]
             value == Convert(field_value, Unquote(m.value))
             operator == Normalize(m.operator)
         IN IF Raised(value) THEN value
            ELSE IF operator \in SupportedOperators
            THEN Return(Compare(operator, field_value, value.value))
            ELSE Raise("ValueError", "Unsupported operator")

----------------------------------------------------------------------------
(* evaluate_rule *)

\* Mutant of evaluate_rule: no test for None, whose attribute lookup fails.
RECURSIVE evaluate_rule_NoNoneTest(_, _)
evaluate_rule_NoNoneTest(n, d) ==
    IF n = None
    THEN Raise("AttributeError", "'NoneType' object has no attribute 'node_type'")
    ELSE IF n.node_type = "operator"
    THEN LET left_result == evaluate_rule_NoNoneTest(n.left, d) IN
         IF Raised(left_result) THEN left_result
         ELSE LET right_result == evaluate_rule_NoNoneTest(n.right, d) IN
              IF Raised(right_result) THEN right_result
              ELSE IF n.value = AND
                   THEN Return(left_result.value /\ right_result.value)
              ELSE IF n.value = OR
                   THEN Return(left_result.value \/ right_result.value)
              ELSE Return(FALSE)
    ELSE IF n.node_type = "operand"
    THEN evaluate_condition(n.value, d)
    ELSE Return(FALSE)

\* Mutant of evaluate_rule: the right child is evaluated only when the left
\* does not decide the operator (short circuit).
RECURSIVE evaluate_rule_ShortCircuit(_, _)
evaluate_rule_ShortCircuit(n, d) ==
    IF n = None \/ ~IsNode(n) THEN Return(FALSE)
    ELSE IF n.node_type = "operator"
    THEN LET left_result == evaluate_rule_ShortCircuit(n.left, d) IN
         IF Raised(left_result) THEN left_result
         ELSE IF n.value = AND /\ ~left_result.value THEN Return(FALSE)
         ELSE IF n.value = OR /\ left_result.value THEN Return(TRUE)
         ELSE LET right_result == evaluate_rule_ShortCircuit(n.right, d) IN
              IF Raised(right_result) THEN right_result
              ELSE IF n.value \in {AND, OR} THEN Return(right_result.value)
              ELSE Return(FALSE)
    ELSE IF n.node_type = "operand"
    THEN evaluate_condition(n.value, d)
    ELSE Return(FALSE)

RECURSIVE evaluate_rule(_, _)
evaluate_rule(node, d) ==
    IF node = None \/ ~IsNode(node) THEN Return(FALSE)
    ELSE IF node.node_type = "operator"
    THEN LET left_result == evaluate_rule(node.left, d) IN
         IF Raised(left_result) THEN left_result
         ELSE LET right_result == evaluate_rule(node.right, d) IN
              IF Raised(right_result) THEN right_result
              ELSE IF node.value = AND
                   THEN Return(left_result.value /\ right_result.value)
              ELSE IF node.value = OR
                   THEN Return(left_result.value \/ right_result.value)
              ELSE Return(FALSE)
    ELSE IF node.node_type = "operand"
    THEN evaluate_condition(node.value, d)
    ELSE Return(FALSE)

----------------------------------------------------------------------------
(* Node.to_dict, json_to_node *)

\* A dict is a function from its keys; {} is the function of no key.
EmptyDict == <<>>

\* Mutant of to_dict: the right child is stored under the key of the left.
RECURSIVE to_dict_RightUnderLeft(_)
to_dict_RightUnderLeft(n) ==
    ("node_type" :> n.node_type) @@ ("value" :> n.value)
      @@ (IF n.right # None THEN "left" :> to_dict_RightUnderLeft(n.right)
          ELSE EmptyDict)
      @@ (IF n.left # None THEN "left" :> to_dict_RightUnderLeft(n.left)
          ELSE EmptyDict)

\* if self.left: a Node is truthy, None is not.
RECURSIVE to_dict(_)
to_dict(node) ==
    ("node_type" :> node.node_type) @@ ("value" :> node.value)
      @@ (IF node.left # None THEN "left" :> to_dict(node.left) ELSE EmptyDict)
      @@ (IF node.right # None THEN "right" :> to_dict(node.right) ELSE EmptyDict)

\* data.get(key) is truthy: the key is there and holds a non-empty dict
\* (None, JSON's null, and {} are falsy).
GetTruthy(d, key) ==
    /\ key \in DOMAIN d
    /\ d[key] # None
    /\ DOMAIN d[key] # {}

RECURSIVE json_to_node(_)
json_to_node(d) ==
    IF "node_type" \notin DOMAIN d \/ "value" \notin DOMAIN d
    THEN Raise("ValueError", "Invalid AST data: 'node_type' and 'value' are required")
    ELSE LET left_node == IF GetTruthy(d, "left")
                          THEN json_to_node(d["left"]) ELSE Return(None)
         IN IF Raised(left_node) THEN left_node
            ELSE LET right_node == IF GetTruthy(d, "right")
                                   THEN json_to_node(d["right"]) ELSE Return(None)
                 IN IF Raised(right_node) THEN right_node
                    ELSE Return(Node(d["node_type"], d["value"],
                                     left_node.value, right_node.value))

----------------------------------------------------------------------------
(* The calls.  The functions are pure: the state is the inputs and what the
   caller holds, the outcome of the last call and of the calls made on it. *)

NotCalled == [kind |-> "none"]

Called(o) == o.kind # "none"

Tokenize ==
    \E k \in DOMAIN rules :
        /\ tokens' = Return(tokenize(rules[k]))
        /\ last' = [op |-> "tokenize", k |-> k]
        /\ ast' = NotCalled /\ node_dict' = NotCalled
        /\ rebuilt' = NotCalled /\ result' = NotCalled
        /\ UNCHANGED inputs

Parse ==
    /\ last.op = "tokenize"
    /\ ast' = parse(tokens.value)
    /\ last' = [op |-> "parse", k |-> last.k]
    /\ node_dict' = NotCalled /\ rebuilt' = NotCalled /\ result' = NotCalled
    /\ UNCHANGED <<inputs, tokens>>

CreateRule ==
    \E k \in DOMAIN rules :
        /\ ast' = create_rule(rules[k])
        /\ last' = [op |-> "create_rule", k |-> k]
        /\ tokens' = NotCalled /\ node_dict' = NotCalled
        /\ rebuilt' = NotCalled /\ result' = NotCalled
        /\ UNCHANGED inputs

CombineRules ==
    /\ ast' = combine_rules(rules)
    /\ last' = [op |-> "combine_rules", k |-> 0]
    /\ tokens' = NotCalled /\ node_dict' = NotCalled
    /\ rebuilt' = NotCalled /\ result' = NotCalled
    /\ UNCHANGED inputs

JsonToNode ==
    /\ ast' = json_to_node(payload)
    /\ last' = [op |-> "json_to_node", k |-> 0]
    /\ tokens' = NotCalled /\ node_dict' = NotCalled
    /\ rebuilt' = NotCalled /\ result' = NotCalled
    /\ UNCHANGED inputs

\* ast.to_dict(); on None the attribute lookup fails.
ToDict ==
    /\ Returned(ast)
    /\ node_dict' = IF ast.value = None
                    THEN Raise("AttributeError", "'NoneType' object has no attribute 'to_dict'")
                    ELSE Return(to_dict(ast.value))
    /\ rebuilt' = NotCalled /\ result' = NotCalled
    /\ UNCHANGED <<inputs, tokens, ast, last>>

\* json_to_node of the map to_dict returned.
JsonToNodeOfDict ==
    /\ Returned(node_dict)
    /\ rebuilt' = json_to_node(node_dict.value)
    /\ UNCHANGED <<inputs, tokens, ast, node_dict, result, last>>

EvaluateRule ==
    /\ Returned(ast)
    /\ result' = evaluate_rule(ast.value, data)
    /\ node_dict' = NotCalled /\ rebuilt' = NotCalled
    /\ UNCHANGED <<inputs, tokens, ast, last>>

Next ==
    \/ Tokenize
    \/ Parse
    \/ CreateRule
    \/ CombineRules
    \/ JsonToNode
    \/ ToDict
    \/ JsonToNodeOfDict
    \/ EvaluateRule

InitOutcomes ==
    /\ tokens = NotCalled /\ ast = NotCalled /\ node_dict = NotCalled
    /\ rebuilt = NotCalled /\ result = NotCalled
    /\ last = [op |-> "none", k |-> 0]

----------------------------------------------------------------------------
(* Input families *)

\* The sequences over S of length at most n.
SeqsUpTo(S, n) == UNION {[1..k -> S] : k \in 0..n}

\* " ".join(items)
RECURSIVE Join(_)
Join(items) ==
    IF items = <<>> THEN <<>>
    ELSE IF Len(items) = 1 THEN items[1]
    ELSE items[1] \o <<" ">> \o Join(Tail(items))

LeafX == <<"x", " ", ">", " ", "1">>

LeafY == <<"y", "<", "=", "2">>

Junk == <<"+", "+">>

FieldX == <<"x">>

FieldY == <<"y">>

\* The records over the fields x and y: each absent or an integer.
RecordOf(vx, vy) ==
    (IF vx = None THEN EmptyDict ELSE FieldX :> vx)
      @@ (IF vy = None THEN EmptyDict ELSE FieldY :> vy)

SamplePayload ==
    [node_type |-> "operator", value |-> AND,
     left |-> [node_type |-> "operand", value |-> LeafX],
     right |-> [node_type |-> "operand", value |-> LeafY]]

\* Specification Spec: one rule text, any sequence of at most MaxItems items.
MaxItems == 3

Items == {LeafX, LeafY, AND, OR, LPAREN, RPAREN, Junk}

ItemTexts == {Join(w) : w \in SeqsUpTo(Items, MaxItems)}

Init ==
    /\ rules \in {<<t>> : t \in ItemTexts}
    /\ data \in {RecordOf(IntVal(5), IntVal(0)), RecordOf(IntVal(0), None)}
    /\ payload = SamplePayload
    /\ InitOutcomes

Spec == Init /\ [][Next]_vars

----------------------------------------------------------------------------
(* The infix grammar of rules, on token sequences:
   expr ::= leaf | expr AND expr | expr OR expr | ( expr )
   leaf ::= identifier comparator token *)

Comparators == {<<">">>, <<"<">>, <<">", "=">>, <<"<", "=">>, <<"=", "=">>,
                <<"!", "=">>, <<"=">>}

IsIdentifier(tok) ==
    /\ tok # <<>>
    /\ tok[1] \in IdentStart
    /\ \A k \in 1..Len(tok) : tok[k] \in IdentChar
    /\ tok # AND /\ tok # OR

IsLeaf(toks) ==
    /\ Len(toks) = 3
    /\ IsIdentifier(toks[1])
    /\ toks[2] \in Comparators

RECURSIVE IsExpr(_)
IsExpr(toks) ==
    \/ IsLeaf(toks)
    \/ /\ Len(toks) >= 3
       /\ toks[1] = LPAREN /\ toks[Len(toks)] = RPAREN
       /\ IsExpr(SubStr(toks, 2, Len(toks) - 1))
    \/ \E k \in 2..(Len(toks) - 1) :
          /\ InPrecedence(toks[k])
          /\ IsExpr(SubStr(toks, 1, k - 1))
          /\ IsExpr(SubStr(toks, k + 1, Len(toks)))

\* Every operator node carries AND or OR and two children, every operand
\* node none.
RECURSIVE WellShaped(_)
WellShaped(n) ==
    IF n.node_type = "operator"
    THEN /\ n.value \in {AND, OR}
         /\ n.left # None /\ n.right # None
         /\ WellShaped(n.left) /\ WellShaped(n.right)
    ELSE /\ n.node_type = "operand"
         /\ n.left = None /\ n.right = None

----------------------------------------------------------------------------
(* C2, C3: parse on arbitrary token sequences (specification Spec) *)

\* C2, as claimed: every node of a tree parse returns is an operator node
\* with value AND or OR and both children, or an operand node with none.
\* Refuted by x > 1 ( y <= 2, which parse reduces with the parenthesis left
\* on the operator stack as the operator.
C2_NodeShape ==
    (last.op = "parse" /\ Returned(ast)) => WellShaped(ast.value)

\* C3, as claimed: on every token sequence that is no sentence of the infix
\* grammar parse raises ValueError; it returns no tree and raises nothing
\* else.  Refuted by an unmatched closing parenthesis (IndexError) and by
\* sequences parse accepts (AND x > 1 y <= 2).
C3_MalformedRaisesValueError ==
    (last.op = "parse" /\ ~IsExpr(tokens.value))
        => (Raised(ast) /\ ast.exc = "ValueError")

----------------------------------------------------------------------------
(* Specification SpecCombine: lists of at most MaxRules rule texts, well
   formed and malformed in each of the ways parse distinguishes. *)

MaxRules == 3

LeafXValue == <<"x", " ", ">", " ", "1">>

RuleAnd == Join(<<LeafY, AND, LeafX>>)

RuleUnmatchedClose == Join(<<LeafX, RPAREN>>)

RuleUnmatchedOpen == Join(<<LPAREN, LeafX>>)

RuleTwoOperands == Join(<<LeafX, LeafY>>)

RuleSamples ==
    {LeafX, RuleAnd, Junk, <<>>, RuleUnmatchedClose, RuleUnmatchedOpen,
     RuleTwoOperands}

InitCombine ==
    /\ rules \in SeqsUpTo(RuleSamples, MaxRules)
    /\ data \in {RecordOf(IntVal(5), IntVal(0)), RecordOf(IntVal(0), IntVal(5))}
    /\ payload = SamplePayload
    /\ InitOutcomes

NextCombine ==
    \/ CreateRule
    \/ CombineRules
    \/ ToDict
    \/ JsonToNodeOfDict
    \/ EvaluateRule

SpecCombine == InitCombine /\ [][NextCombine]_vars

\* The left-leaning fold of trees under synthetic OR nodes; None of no tree.
RECURSIVE LeftFold(_)
LeftFold(ts) ==
    IF ts = <<>> THEN None
    ELSE IF Len(ts) = 1 THEN ts[1]
    ELSE Node("operator", OR, LeftFold(SubStr(ts, 1, Len(ts) - 1)), ts[Len(ts)])

WellFormedRule(r) == IsExpr(tokenize(r))

\* The trees of the rules of rs that satisfy keep, in input order.
TreesOf(rs, keep(_)) ==
    LET kept == SelectSeq(rs, keep)
    IN [k \in 1..Len(kept) |-> create_rule(kept[k]).value]

Compiles(r) == Returned(create_rule(r))

\* C1, as claimed: combine_rules never fails, and its result is that of
\* combining the well-formed rules of the list alone, every malformed rule
\* being skipped.  Refuted by a rule with an unmatched closing parenthesis:
\* its IndexError is not the ValueError combine_rules recovers from.
C1_CombineSkipsMalformed ==
    last.op = "combine_rules"
        => ast = Return(LeftFold(TreesOf(rules, WellFormedRule)))

\* C9, as claimed: with t1..tk the trees of the rules that parse, in input
\* order, combine_rules returns None when k = 0, t1 when k = 1 and else the
\* left-leaning fold under k-1 OR nodes; and its evaluation, where it raises
\* nothing, is the disjunction of the evaluations of t1..tk.  Refuted by a
\* list holding a rule with an unmatched closing parenthesis, where
\* combine_rules returns nothing (see C1).
C9_CombineIsLeftFold ==
    LET ts == TreesOf(rules, Compiles) IN
    last.op = "combine_rules"
        => /\ ast = Return(LeftFold(ts))
           /\ (Called(result) /\ Returned(result))
                  => result.value =
                       (\E k \in DOMAIN ts :
                            evaluate_rule(ts[k], data) = Return(TRUE))

\* C8: for every tree create_rule or combine_rules returns,
\* json_to_node(tree.to_dict()) returns a tree structurally identical to it:
\* the same node_type and value at every node and the same children.
C8_RoundTrip ==
    (last.op \in {"create_rule", "combine_rules"} /\ Called(rebuilt))
        => rebuilt = Return(ast.value)

\* A combined tree of depth two has made the round trip.
C8_Witness ==
    /\ last.op = "combine_rules"
    /\ Called(rebuilt)
    /\ ast.value.node_type = "operator"
    /\ ast.value.left.node_type = "operator"
    /\ ast.value.right.node_type = "operand"

----------------------------------------------------------------------------
(* Specification SpecGrammar: one rule text, any sentence of the grammar
   over the leaves x > 1 and y='a' derived from a leaf in at most MaxSteps
   steps, each joining a sentence by AND or OR or wrapping one in
   parentheses (two more items); and the records where both leaves
   evaluate. *)

MaxSteps == 3

LeafQ == <<"y", "=", "'", "a", "'">>

LeafQValue == <<"y", " ", "=", " ", "'", "a", "'">>

GrammarLeaves == {LeafX, LeafQ}

RECURSIVE Sentences(_)
Sentences(n) ==
    IF n < 1 THEN {}
    ELSE LET shorter == Sentences(n - 2) IN
         {<<l>> : l \in GrammarLeaves}
           \cup {<<LPAREN>> \o w \o <<RPAREN>> : w \in shorter}
           \cup {p[1] \o <<p[2]>> \o p[3] :
                   p \in {q \in shorter \X {AND, OR} \X shorter :
                            Len(q[1]) + Len(q[3]) + 1 <= n}}

\* The sentences of at most 2 * steps + 1 items, as rule texts.
GrammarTexts(steps) == {Join(w) : w \in Sentences(2 * steps + 1)}

InitGrammar ==
    /\ rules \in {<<t>> : t \in GrammarTexts(MaxSteps)}
    /\ data \in {RecordOf(IntVal(vx), StrVal(<<vy>>)) :
                    vx \in {0, 5}, vy \in {"a", "b"}}
    /\ payload = SamplePayload
    /\ InitOutcomes

NextGrammar ==
    \/ Tokenize
    \/ Parse
    \/ EvaluateRule

SpecGrammar == InitGrammar /\ [][NextGrammar]_vars

\* The tokens grouped into the items of the grammar: a leaf is three tokens.
RECURSIVE Group(_)
Group(toks) ==
    IF toks = <<>> THEN <<>>
    ELSE IF Len(toks) >= 3 /\ IsLeaf(SubStr(toks, 1, 3))
         THEN <<SubStr(toks, 1, 3)>> \o Group(SubStr(toks, 4, Len(toks)))
         ELSE <<SubStr(toks, 1, 1)>> \o Group(Tail(toks))

ItemIs(item, tok) == item = <<tok>>

RefLeaf(item) ==
    Node("operand", item[1] \o <<" ">> \o item[2] \o <<" ">> \o item[3],
         None, None)

\* Index of the last item of items that is <<tok>> outside parentheses, 0 if none.
ParenDepth(items, k) ==
    Cardinality({j \in 1..(k - 1) : ItemIs(items[j], LPAREN)})
      - Cardinality({j \in 1..(k - 1) : ItemIs(items[j], RPAREN)})

LastTopLevel(items, tok) ==
    LET at == {k \in 1..Len(items) :
                 ItemIs(items[k], tok) /\ ParenDepth(items, k) = 0}
    IN IF at = {} THEN 0 ELSE CHOOSE k \in at : \A j \in at : j <= k

\* The tree of a sentence by the grammar with AND binding tighter than OR,
\* both grouping left to right, and parentheses as one operand.
RECURSIVE RefExpr(_)
RefExpr(items) ==
    LET o == LastTopLevel(items, OR)
        a == LastTopLevel(items, AND)
    IN IF o # 0
       THEN Node("operator", OR, RefExpr(SubStr(items, 1, o - 1)),
                 RefExpr(SubStr(items, o + 1, Len(items))))
       ELSE IF a # 0
       THEN Node("operator", AND, RefExpr(SubStr(items, 1, a - 1)),
                 RefExpr(SubStr(items, a + 1, Len(items))))
       ELSE IF ItemIs(items[1], LPAREN)
       THEN RefExpr(SubStr(items, 2, Len(items) - 1))
       ELSE RefLeaf(items[1])

NoParens(toks) == \A k \in 1..Len(toks) : toks[k] \notin {LPAREN, RPAREN}

\* The parenthesis-free sentence as a disjunction of conjunctions of leaves.
RECURSIVE AndSegments(_)
AndSegments(items) ==
    LET o == LastTopLevel(items, OR) IN
    IF o = 0 THEN <<items>>
    ELSE Append(AndSegments(SubStr(items, 1, o - 1)),
                SubStr(items, o + 1, Len(items)))

RECURSIVE AndChain(_)
AndChain(seg) ==
    IF Len(seg) = 1 THEN RefLeaf(seg[1])
    ELSE Node("operator", AND, AndChain(SubStr(seg, 1, Len(seg) - 2)),
              RefLeaf(seg[Len(seg)]))

RECURSIVE OrOfAndChains(_)
OrOfAndChains(segs) ==
    IF Len(segs) = 1 THEN AndChain(segs[1])
    ELSE Node("operator", OR, OrOfAndChains(SubStr(segs, 1, Len(segs) - 1)),
              AndChain(segs[Len(segs)]))

\* The truth of the leaves of the family, by integer and string comparison.
LeafTruth(item, d) ==
    IF item[1] = FieldX THEN d[FieldX].v > 1 ELSE d[FieldY].s = <<"a">>

\* Every leaf of the family has its field, of the type of its literal.
TotalRecord(d) ==
    /\ FieldX \in DOMAIN d /\ d[FieldX].t = "int"
    /\ FieldY \in DOMAIN d /\ d[FieldY].t = "str"

\* C6: on a parenthesis-free sentence parse builds the tree in which AND
\* binds tighter than OR and equal operators group left to right (the
\* left-leaning OR of left-leaning AND chains), and its evaluation, on a
\* record where every leaf evaluates, is the disjunction over the AND
\* chains of the conjunction of their leaves.
C6_Precedence ==
    (last.op = "parse" /\ IsExpr(tokens.value) /\ NoParens(tokens.value))
        => LET segs == AndSegments(Group(tokens.value)) IN
           /\ ast = Return(OrOfAndChains(segs))
           /\ (Called(result) /\ TotalRecord(data))
                 => result = Return(\E s \in DOMAIN segs :
                                      \A k \in DOMAIN segs[s] :
                                          Len(segs[s][k]) = 3
                                              => LeafTruth(segs[s][k], data))

\* a AND b OR c has been parsed to OR(AND(a, b), c) and evaluated to true
\* with a false and c true.
C6_Witness ==
    /\ last.op = "parse"
    /\ tokens.value = tokenize(Join(<<LeafX, AND, LeafQ, OR, LeafQ>>))
    /\ Returned(ast)
    /\ ast.value.value = OR /\ ast.value.left.value = AND
    /\ data = RecordOf(IntVal(0), StrVal(<<"a">>))
    /\ result = Return(TRUE)

\* C7: on every sentence parse builds the tree in which each parenthesized
\* sub-expression is one operand of the operator around it; in particular
\* the tree of ( e ) is the tree of e.
C7_Parentheses ==
    (last.op = "parse" /\ IsExpr(tokens.value))
        => LET toks == tokens.value
               inner == SubStr(toks, 2, Len(toks) - 1)
           IN /\ ast = Return(RefExpr(Group(toks)))
              /\ (toks[1] = LPAREN /\ toks[Len(toks)] = RPAREN /\ IsExpr(inner))
                    => ast = parse(inner)

\* ( a OR b ) AND c has been parsed to AND(OR(a, b), c).
C7_Witness ==
    /\ last.op = "parse"
    /\ tokens.value = tokenize(Join(<<LPAREN, LeafX, OR, LeafQ, RPAREN, AND, LeafQ>>))
    /\ Returned(ast)
    /\ ast.value.value = AND /\ ast.value.left.value = OR
    /\ ast.value.right.value = LeafQValue

----------------------------------------------------------------------------
(* Specification SpecMissing: one rule text, any sentence of at most
   MaxMissingSteps steps, and the records where x is absent or an integer
   and y is absent, a string or an integer. *)

MaxMissingSteps == 2

InitMissing ==
    /\ rules \in {<<t>> : t \in GrammarTexts(MaxMissingSteps)}
    /\ data \in {RecordOf(vx, vy) :
                    vx \in {None, IntVal(0), IntVal(5)},
                    vy \in {None, StrVal(<<"a">>), StrVal(<<"b">>), IntVal(5)}}
    /\ payload = SamplePayload
    /\ InitOutcomes

NextMissing ==
    \/ Tokenize
    \/ Parse
    \/ CreateRule
    \/ EvaluateRule

SpecMissing == InitMissing /\ [][NextMissing]_vars

\* The values of the operand leaves of a tree, left to right.
RECURSIVE LeavesInOrder(_)
LeavesInOrder(n) ==
    IF n = None THEN <<>>
    ELSE IF n.node_type = "operand" THEN <<n.value>>
    ELSE LeavesInOrder(n.left) \o LeavesInOrder(n.right)

\* The three parts of a leaf value, which parse joins by single spaces.
FieldOfLeaf(v) == SubStr(v, 1, FindChar(v, 1, " ") - 1)

AfterField(v) == SubStr(v, FindChar(v, 1, " ") + 1, Len(v))

ComparatorOfLeaf(v) == FieldOfLeaf(AfterField(v))

LiteralOfLeaf(v) == AfterField(AfterField(v))

IsNumberLiteral(lit) == lit # <<>> /\ NumberLen(lit, 1) = Len(lit)

IsQuotedLiteral(lit) ==
    /\ Len(lit) >= 2
    /\ lit[1] \in Quotes /\ lit[Len(lit)] = lit[1]
    /\ \A k \in 2..(Len(lit) - 1) : lit[k] \notin {lit[1], "\n"}

\* field comparator literal, as the condition evaluator reads it.
WellFormedCondition(v) ==
    /\ FindChar(v, 1, " ") # 0 /\ FindChar(AfterField(v), 1, " ") # 0
    /\ IsIdentifier(FieldOfLeaf(v))
    /\ ComparatorOfLeaf(v) \in Comparators
    /\ (IsNumberLiteral(LiteralOfLeaf(v)) \/ IsQuotedLiteral(LiteralOfLeaf(v)))

MissingField(v, d) == FieldOfLeaf(v) \notin DOMAIN d

\* The record's value is a number and int() or float() rejects the literal.
Unconvertible(v, d) ==
    /\ ~MissingField(v, d)
    /\ Raised(Convert(d[FieldOfLeaf(v)], Unquote(LiteralOfLeaf(v))))

CompiledTree ==
    /\ last.op \in {"parse", "create_rule"}
    /\ Returned(ast)
    /\ \A k \in DOMAIN LeavesInOrder(ast.value) :
          WellFormedCondition(LeavesInOrder(ast.value)[k])

\* C4, as claimed: when a leaf of a compiled tree names a field the record
\* lacks, evaluate_rule fails with the field-not-found error, whatever the
\* other leaves.  Refuted by y = 'a' AND x > 1 on {y: 5}: the conversion of
\* 'a' for the numeric y fails before the leaf on the missing x is reached.
C4_MissingFieldAlwaysFieldNotFound ==
    (CompiledTree /\ Called(result)
       /\ \E k \in DOMAIN LeavesInOrder(ast.value) :
             MissingField(LeavesInOrder(ast.value)[k], data))
        => result = Raise("ValueError", "Field not found in data.")

\* C4, amended: evaluate_rule then fails with a ValueError and returns
\* neither true nor false: the error of the leftmost leaf that fails, the
\* field-not-found error unless a leaf to the left of every leaf with a
\* missing field fails the conversion of its literal.
C4_MissingFieldAlwaysRaises ==
    LET ls == LeavesInOrder(ast.value)
        failing == {k \in DOMAIN ls :
                      MissingField(ls[k], data) \/ Unconvertible(ls[k], data)}
        first == CHOOSE k \in failing : \A j \in failing : k <= j
    IN (CompiledTree /\ Called(result)
          /\ \E k \in DOMAIN ls : MissingField(ls[k], data))
           => /\ Raised(result) /\ result.exc = "ValueError"
              /\ result = IF MissingField(ls[first], data)
                          THEN Raise("ValueError", "Field not found in data.")
                          ELSE Convert(data[FieldOfLeaf(ls[first])],
                                       Unquote(LiteralOfLeaf(ls[first])))

\* x > 1 AND y = 'a' has been evaluated on a record without y where x > 1
\* is false: the missing field of the right leaf is reported.
C4_Witness ==
    /\ last.op = "create_rule"
    /\ ast = Return(Node("operator", AND,
                         Node("operand", LeafXValue, None, None),
                         Node("operand", LeafQValue, None, None)))
    /\ data = RecordOf(IntVal(0), None)
    /\ result = Raise("ValueError", "Field not found in data.")

----------------------------------------------------------------------------
(* Specification SpecTree: json_to_node and evaluate_rule on the attribute
   maps of at most MaxNodes nodes, of any node_type and value and with
   either child absent; and combine_rules on a list where no rule parses. *)

MaxNodes == 3

NodeLabels ==
    {<<"operator", AND>>, <<"operator", OR>>, <<"operator", LPAREN>>,
     <<"operand", LeafXValue>>, <<"group", OR>>}

AttributeMap(label, l, r) ==
    ("node_type" :> label[1]) @@ ("value" :> label[2])
      @@ (IF l = None THEN EmptyDict ELSE "left" :> l)
      @@ (IF r = None THEN EmptyDict ELSE "right" :> r)

\* The maps of at most n nodes; None stands for the key left out.
RECURSIVE AttributeMaps(_)
AttributeMaps(n) ==
    IF n < 1 THEN {}
    ELSE UNION {{AttributeMap(label, l, r) :
                    label \in NodeLabels,
                    l \in {None} \cup AttributeMaps(a),
                    r \in {None} \cup AttributeMaps(n - 1 - a)} :
                a \in 0..(n - 1)}

InitTree ==
    /\ rules = <<Junk>>
    /\ data \in {RecordOf(vx, None) : vx \in {None, IntVal(0), IntVal(5)}}
    /\ payload \in AttributeMaps(MaxNodes)
    /\ InitOutcomes

NextTree ==
    \/ JsonToNode
    \/ CombineRules
    \/ EvaluateRule

SpecTree == InitTree /\ [][NextTree]_vars

\* The operand leaves evaluate_rule reaches: those under operator nodes only.
RECURSIVE ReachedLeaves(_)
ReachedLeaves(n) ==
    IF n = None THEN {}
    ELSE IF n.node_type = "operand" THEN {n.value}
    ELSE IF n.node_type = "operator"
         THEN ReachedLeaves(n.left) \cup ReachedLeaves(n.right)
    ELSE {}

----------------------------------------------------------------------------
(* Specification SpecCompare: the rule text field OP n of one comparison and
   a record with an integer for the field. *)

MaxValue == 2

CompareFields == {<<"a", "g", "e">>, <<"a", ".", "b">>, <<"O", "R", "D", "E", "R">>}

CompareLiterals == {<<"3", "0">>, <<"0", "0", "7">>}

CompareValues == {30 + k : k \in (-MaxValue)..MaxValue} \cup {7}

CompareText(f, op, n) == f \o <<" ">> \o op \o <<" ">> \o n

InitCompare ==
    \E f \in CompareFields, op \in Comparators, n \in CompareLiterals,
       v \in CompareValues :
        /\ rules = <<CompareText(f, op, n)>>
        /\ data = (f :> IntVal(v))
        /\ payload = SamplePayload
        /\ InitOutcomes

NextCompare ==
    \/ Tokenize
    \/ Parse
    \/ CreateRule
    \/ EvaluateRule

SpecCompare == InitCompare /\ [][NextCompare]_vars

\* v OP n of two integers, = meaning ==.
IntCompare(op, v, n) ==
    IF op = <<">">> THEN v > n
    ELSE IF op = <<"<">> THEN v < n
    ELSE IF op = <<">", "=">> THEN v >= n
    ELSE IF op = <<"<", "=">> THEN v <= n
    ELSE IF op = <<"!", "=">> THEN v # n
    ELSE v = n

\* C5, as claimed: for every identifier, comparator and plain-digit integer
\* literal, create_rule compiles field OP n and the tree evaluates on a
\* record with the integer v for the field to v OP n.  Refuted by the
\* field ORDER, which the tokenizer splits into the keyword OR and DER.
C5_SingleComparison ==
    LET text == rules[1]
        v == data[FieldOfLeaf(text)].v
        n == DigitsToInt(LiteralOfLeaf(text))
    IN last.op = "create_rule"
          => /\ Returned(ast)
             /\ Called(result)
                  => result = Return(IntCompare(ComparatorOfLeaf(text), v, n))

----------------------------------------------------------------------------
(* Specification SpecCoerce: one rule text, the field x compared with a
   quoted literal, and a record with a number for x. *)

MaxOffset == 1

QuotedLiterals ==
    {<<"'", "3", "0", "'">>, <<"\"", "3", "0", "\"">>, <<"'", "-", "5", "'">>,
     <<"'", "3", ".", "5", "'">>, <<"'", "a", "b", "c", "'">>, <<"'", "'">>}

NumericValues ==
    {IntVal(30 + k) : k \in (-MaxOffset)..MaxOffset} \cup {FloatVal(35, 1)}

InitCoerce ==
    \E op \in Comparators, lit \in QuotedLiterals, v \in NumericValues :
        /\ rules = <<CompareText(FieldX, op, lit)>>
        /\ data = (FieldX :> v)
        /\ payload = SamplePayload
        /\ InitOutcomes

NextCoerce ==
    \/ Tokenize
    \/ Parse
    \/ CreateRule
    \/ EvaluateRule

SpecCoerce == InitCoerce /\ [][NextCoerce]_vars

\* C11, as claimed: when the record holds a number for the field and the
\* literal of the condition is a quoted string, whatever its content,
\* evaluating the condition fails with a ValueError and never returns a
\* boolean.  Refuted by quoted digits such as '30', which the code strips
\* of their quotes and converts with int().
C11_NoCoercion ==
    (last.op = "create_rule" /\ Returned(ast) /\ Called(result))
        => (Raised(result) /\ result.exc = "ValueError")

----------------------------------------------------------------------------
(* Specification SpecIncomplete: json_to_node on the attribute maps of at
   most MaxMaps maps, the root and the maps under left and right counted,
   each with or without node_type and with or without value; the map with
   neither key and no child is the empty map. *)

MaxMaps == 3

PartialMap(hasType, hasValue, l, r) ==
    (IF hasType THEN "node_type" :> "operator" ELSE EmptyDict)
      @@ (IF hasValue THEN "value" :> AND ELSE EmptyDict)
      @@ (IF l = None THEN EmptyDict ELSE "left" :> l)
      @@ (IF r = None THEN EmptyDict ELSE "right" :> r)

\* The maps made of at most n maps; None stands for the key left out.
RECURSIVE PartialMaps(_)
PartialMaps(n) ==
    IF n < 1 THEN {}
    ELSE UNION {{PartialMap(hasType, hasValue, l, r) :
                    hasType \in BOOLEAN, hasValue \in BOOLEAN,
                    l \in {None} \cup PartialMaps(a),
                    r \in {None} \cup PartialMaps(n - 1 - a)} :
                a \in 0..(n - 1)}

InitIncomplete ==
    /\ rules = <<LeafX>>
    /\ data = RecordOf(IntVal(5), None)
    /\ payload \in PartialMaps(MaxMaps)
    /\ InitOutcomes

NextIncomplete ==
    \/ JsonToNode
    \/ EvaluateRule

SpecIncomplete == InitIncomplete /\ [][NextIncomplete]_vars

\* The map, or a map under left or right at any depth, lacks node_type or
\* value.
RECURSIVE Incomplete(_)
Incomplete(d) ==
    \/ "node_type" \notin DOMAIN d
    \/ "value" \notin DOMAIN d
    \/ \E key \in {"left", "right"} \cap DOMAIN d : Incomplete(d[key])

\* C12, as claimed: json_to_node fails on every attribute map where the
\* root or a map under left or right at any depth, the map of no key
\* included, lacks node_type or value; it returns no tree.  Refuted by a
\* complete root with the empty map as a child, which the code takes for an
\* absent child.
C12_RejectsIncompleteMaps ==
    (last.op = "json_to_node" /\ Incomplete(payload)) => Raised(ast)

----------------------------------------------------------------------------
(* Specification SpecOrder: tokenize and parse of one rule text, any
   sequence, well formed or not, of at most MaxOrderItems items: two leaves,
   the head of a leaf, which takes whatever token follows it for its third
   token, AND, OR and the two parentheses. *)

MaxOrderItems == 5

HeadZ == <<"z", "!", "=">>

OrderItems == {LeafX, LeafY, HeadZ, AND, OR, LPAREN, RPAREN}

InitOrder ==
    /\ rules \in {<<Join(w)>> : w \in SeqsUpTo(OrderItems, MaxOrderItems)}
    /\ data = RecordOf(IntVal(5), IntVal(0))
    /\ payload = SamplePayload
    /\ InitOutcomes

NextOrder ==
    \/ Tokenize
    \/ Parse

SpecOrder == InitOrder /\ [][NextOrder]_vars

\* The leaf conditions one pass over the tokens recognizes, in the order of
\* the tokens: a parenthesis, AND and OR are one token each, an identifier
\* followed by a comparator and a third token is a leaf of three tokens,
\* joined by single spaces; i is the number of tokens passed.
RECURSIVE RecognizedLeaves(_, _)
RecognizedLeaves(toks, i) ==
    IF i >= Len(toks) THEN <<>>
    ELSE IF toks[i + 1] \in {LPAREN, RPAREN, AND, OR}
    THEN RecognizedLeaves(toks, i + 1)
    ELSE IF i + 3 <= Len(toks)
    THEN <<Join(SubSeq(toks, i + 1, i + 3))>> \o RecognizedLeaves(toks, i + 3)
    ELSE <<>>

\* C13: whenever parse returns a tree, the operand leaves of the tree from
\* left to right are exactly the leaf conditions recognized in the pass
\* over the tokens, each once and in the order of the tokens, and the value
\* of each is its three tokens joined by single spaces.
C13_OperandOrder ==
    (last.op = "parse" /\ Returned(ast))
        => LeavesInOrder(ast.value) = RecognizedLeaves(tokens.value, 0)

\* parse has returned a tree of three leaves that are not all the same,
\* under an AND and an OR.
C13_Witness ==
    /\ last.op = "parse" /\ Returned(ast)
    /\ ast.value.node_type = "operator"
    /\ {AND, OR} \subseteq
           {ast.value.value, ast.value.left.value, ast.value.right.value}
    /\ LET leaves == LeavesInOrder(ast.value) IN
         /\ Len(leaves) = 3
         /\ leaves[1] # leaves[2]

====
